---------------------------- MODULE Spec2Model ----------------------------
(***************************************************************************)
(* Model of the cross-instance validation coordinator of                   *)
(* codes/apps/water-nsquared/cross_validation.c: the participant client    *)
(* (init_cross_validation, cross_validate_sync_point), the coordinator     *)
(* thread inside instance 0 (coordinator_thread_func,                      *)
(* handle_sync_point_message), the tolerant fingerprint comparator and the *)
(* DMTCP checkpoint hook.                                                  *)
(*                                                                         *)
(* Strings are tuples of one-character strings.  Numeric token values are  *)
(* exact decimals s * 10^e.                                                *)
(***************************************************************************)
EXTENDS Integers, Sequences, FiniteSets, TLC

\* ----------------------------------------------------------------- bounds
\* largest number of instances (CROSS_VALIDATION_NUM_INSTANCES) explored
MaxN == 3
\* number of validate calls the hosted computation makes in each process
MaxCalls == 2
\* number of checkpoint events in a run (all processes together)
MaxCkpt == 1
\* idle polling slices before validate gives up (max_wait_ms / 100 in the code)
PollSlices == 2

\* ------------------------------------------------------ program constants
MAX_INSTANCES == 4
MSG_REGISTER_INSTANCE == 1
MSG_SYNC_POINT == 2
MSG_VALIDATION_RESULT == 3
MSG_SHUTDOWN == 4

\* ------------------------------------------------------------ comparator
Delims == {" ", "="}
Digits == {"0", "1", "2", "3", "4", "5", "6", "7", "8", "9"}

DigitVal(c) ==
    CASE c = "0" -> 0 [] c = "1" -> 1 [] c = "2" -> 2 [] c = "3" -> 3
      [] c = "4" -> 4 [] c = "5" -> 5 [] c = "6" -> 6 [] c = "7" -> 7
      [] c = "8" -> 8 [] c = "9" -> 9 [] OTHER -> 0

RECURSIVE Pow10(_)
Pow10(n) == IF n <= 0 THEN 1 ELSE 10 * Pow10(n - 1)

\* a decimal value is held exactly as s * 10^e with s a signed integer; the
\* tokens of the runs have at most four significant digits (|s| < MantCap)
\* and at most two exponent digits, so that no value overflows or underflows
\* a double
MantCap == Pow10(4)

\* #define FLOAT_TOLERANCE 1e-10
FLOAT_TOLERANCE == [s |-> 1, e |-> 0 - 10]

\* strtok_r(s, " =", ...) applied until exhaustion: the non-empty maximal
\* runs of non-delimiter characters, in order
RECURSIVE TokensFrom(_, _, _)
TokensFrom(s, i, cur) ==
    IF i > Len(s)
    THEN IF cur = <<>> THEN <<>> ELSE <<cur>>
    ELSE IF s[i] \in Delims
         THEN IF cur = <<>>
              THEN TokensFrom(s, i + 1, <<>>)
              ELSE <<cur>> \o TokensFrom(s, i + 1, <<>>)
         ELSE TokensFrom(s, i + 1, Append(cur, s[i]))

Tokenize(s) == TokensFrom(s, 1, <<>>)

\* the digits of t from position i on: [n: their value, k: how many]
RECURSIVE DigitRun(_, _, _, _)
DigitRun(t, i, n, k) ==
    IF i <= Len(t) /\ t[i] \in Digits
    THEN DigitRun(t, i + 1, 10 * n + DigitVal(t[i]), k + 1)
    ELSE [n |-> n, k |-> k]

\* t[i .. i + Len(w) - 1] spells the word w, in either case
RECURSIVE Spells(_, _, _, _)
Spells(t, i, w, k) ==
    IF k > Len(w) THEN TRUE
    ELSE IF i + k - 1 > Len(t) THEN FALSE
    ELSE IF t[i + k - 1] \in w[k] THEN Spells(t, i, w, k + 1) ELSE FALSE

WordNan == <<{"n", "N"}, {"a", "A"}, {"n", "N"}>>
WordInf == <<{"i", "I"}, {"n", "N"}, {"f", "F"}>>
WordInity == <<{"i", "I"}, {"n", "N"}, {"i", "I"}, {"t", "T"}, {"y", "Y"}>>

\* s * 10^e without trailing zeros in s; zero is 0 * 10^0
RECURSIVE Norm(_, _)
Norm(s, e) ==
    IF s = 0 THEN [s |-> 0, e |-> 0]
    ELSE IF s % 10 = 0 THEN Norm(s \div 10, e + 1)
    ELSE [s |-> s, e |-> e]

\* strtod(token, &endptr) on the forms  [+-]nan, [+-]inf, [+-]infinity and
\* [+-]digits[.digits][e[+-]digits] (a mantissa needs one digit at least):
\* end is the index of the first character not consumed (Len+1 when the
\* whole token was consumed, 1 when no conversion was performed); kind is
\* "fin", "nan" or "inf"; a finite value is s * 10^e, an infinity has s = 1
\* or s = -1.  Hexadecimal forms and leading white space other than the
\* blank are not in the alphabet of the runs.
Strtod(t) ==
    LET sgn  == IF Len(t) >= 1 /\ t[1] \in {"-", "+"} THEN 1 ELSE 0
        neg  == sgn = 1 /\ t[1] = "-"
        int  == DigitRun(t, sgn + 1, 0, 0)
        p1   == sgn + 1 + int.k
        dot  == p1 <= Len(t) /\ t[p1] = "."
        man  == IF dot THEN DigitRun(t, p1 + 1, int.n, 0) ELSE [n |-> int.n, k |-> 0]
        p    == IF dot THEN p1 + 1 + man.k ELSE p1
        hasE == p <= Len(t) /\ t[p] \in {"e", "E"}
        esgn == IF hasE /\ p + 1 <= Len(t) /\ t[p + 1] \in {"-", "+"} THEN 1 ELSE 0
        eneg == esgn = 1 /\ t[p + 1] = "-"
        ex   == IF hasE THEN DigitRun(t, p + 1 + esgn, 0, 0) ELSE [n |-> 0, k |-> 0]
        useE == hasE /\ ex.k > 0
        e10  == IF useE THEN (IF eneg THEN 0 - ex.n ELSE ex.n) ELSE 0
        val  == Norm(IF neg THEN 0 - man.n ELSE man.n, e10 - man.k)
    IN  IF Spells(t, sgn + 1, WordNan, 1)
        THEN [end |-> sgn + 4, kind |-> "nan", s |-> 0, e |-> 0]
        ELSE IF Spells(t, sgn + 1, WordInf, 1)
        THEN [end |-> IF Spells(t, sgn + 4, WordInity, 1) THEN sgn + 9 ELSE sgn + 4,
              kind |-> "inf", s |-> IF neg THEN 0 - 1 ELSE 1, e |-> 0]
        ELSE IF int.k + man.k = 0
        THEN [end |-> 1, kind |-> "fin", s |-> 0, e |-> 0]
        ELSE [end |-> IF useE THEN p + 1 + esgn + ex.k ELSE p,
              kind |-> "fin", s |-> val.s, e |-> val.e]

\* the value itself in place of its magnitude
FabsOmitted(x) == x

Fabs(x) == IF x < 0 THEN 0 - x ELSE x

Min2(x, y) == IF x <= y THEN x ELSE y

\* fabs(big * 10^g - small) > 10^j for g > 4, 0 < |big| < MantCap and
\* |small| < MantCap: the operand of the larger exponent decides, except at
\* |big| = 10^j, where the other operand decides when it is of the opposite
\* sign and not lost in the 53-bit rounding of the subtraction (g < 16)
FarExceeds(big, small, g, j) ==
    IF j < 0 THEN TRUE
    ELSE IF j >= 4 THEN FALSE
    ELSE IF Fabs(big) > Pow10(j) THEN TRUE
    ELSE IF Fabs(big) < Pow10(j) THEN FALSE
    ELSE big * small < 0 /\ g < 16

\* fabs(d) > 10^k for an integer d with |d| < 10^9
NearExceeds(d, k) ==
    IF k < 0 THEN Fabs(d) > 0
    ELSE IF k >= 9 THEN FALSE
    ELSE Fabs(d) > Pow10(k)

\* fabs(s1 * 10^e1 - s2 * 10^e2) > FLOAT_TOLERANCE, for nonzero s1, s2 and
\* e0 the smaller of e1, e2.  A difference that equals the tolerance in
\* decimal is taken as not greater.
ScaledExceeds(s1, g1, s2, g2, k) ==
    IF g1 <= 4 /\ g2 <= 4
    THEN NearExceeds(s1 * Pow10(g1) - s2 * Pow10(g2), k)
    ELSE IF g1 > g2 THEN FarExceeds(s1, s2, g1, k - g1)
         ELSE FarExceeds(s2, s1, g2, k - g2)

DecExceeds(s1, e1, s2, e2) ==
    IF s1 = 0 /\ s2 = 0 THEN FALSE
    ELSE IF s1 = 0 THEN ScaledExceeds(0, 0, s2, 0, FLOAT_TOLERANCE.e - e2)
    ELSE IF s2 = 0 THEN ScaledExceeds(s1, 0, 0, 0, FLOAT_TOLERANCE.e - e1)
    ELSE ScaledExceeds(s1, e1 - Min2(e1, e2), s2, e2 - Min2(e1, e2),
                       FLOAT_TOLERANCE.e - Min2(e1, e2))

\* fabs(val1 - val2) > FLOAT_TOLERANCE (line 401): a comparison with a NaN
\* is false, and the difference of two infinities of one sign is a NaN
DiffExceeds(v1, v2) ==
    IF v1.kind = "nan" \/ v2.kind = "nan" THEN FALSE
    ELSE IF v1.kind = "inf" /\ v2.kind = "inf" THEN v1.s # v2.s
    ELSE IF v1.kind = "inf" \/ v2.kind = "inf" THEN TRUE
    ELSE DecExceeds(v1.s, v1.e, v2.s, v2.e)

\* one iteration of the while loop of compare_fingerprints_with_tolerance
TokenMatch(t1, t2) ==
    LET r1 == Strtod(t1)
        r2 == Strtod(t2)
    IN  IF r1.end = Len(t1) + 1 /\ r2.end = Len(t2) + 1
        THEN ~ DiffExceeds(r1, r2)
        ELSE t1 = t2

RECURSIVE TokensMatch(_, _, _)
TokensMatch(a, b, i) ==
    IF i > Len(a) \/ i > Len(b)
    THEN Len(a) = Len(b)
    ELSE IF TokenMatch(a[i], b[i]) THEN TokensMatch(a, b, i + 1) ELSE FALSE

compare_fingerprints_with_tolerance(fp1, fp2) ==
    TokensMatch(Tokenize(fp1), Tokenize(fp2), 1)

\* ------------------------------------------------------------ fingerprints
\* "e=0", "e=6e-11", "e=-6e-11": the first matches the other two, which do
\* not match each other (they differ by 1.2e-10)
FpZero == <<"e", "=", "0">>
FpPlus == <<"e", "=", "6", "e", "-", "1", "1">>
FpMinus == <<"e", "=", "-", "6", "e", "-", "1", "1">>
Fingerprints == {FpZero, FpPlus, FpMinus}

\* ------------------------------------------------------------------ state
VARIABLES
    num_instances,   \* N, the same in every process (environment)
    pc,              \* per process: boot, initB, idle, waiting, ckpt, aborted
    ctx,             \* per process: g_validation_context != NULL
    enabled,         \* per process: g_validation_enabled
    ckptflag,        \* per process: checkpoint_in_progress
    counter,         \* per process: g_sync_point_counter
    saved,           \* per process: saved_instance_id >= 0 (and saved_num_instances > 0)
    gen,             \* per process: number of client connections made so far
    elapsed,         \* per process: idle slices of the current wait (elapsed_ms / 100)
    calls,           \* per process: validate calls the hosted computation has made
    conns,           \* the stream connections (records; owner and g identify one)
    backlog,         \* connections waiting in the listener's accept queue
    listener,        \* fd of instance 0's listening socket, -1 when there is none
    csock0,          \* fd of instance 0's client socket, -1 when there is none
    std0,            \* the standard descriptors still open in instance 0
    phase,           \* coordinator thread: none, reg (registration loop), oper
    registered,      \* coordinator thread: registered_instances
    master,          \* coordinator thread: accepted fds in master_fds
    g_client_fds,    \* instance 0: g_client_fds[0 .. MAX_INSTANCES-1]
    slot,            \* g_coordinator_state: current_sync_point, instances_arrived, ...
    epoch,           \* number of coordinator threads started so far
    got,             \* history: <<epoch, sync point, instance>> submissions handled
    emitted,         \* history: <<epoch, sync point>> of the results broadcast
    resolved,        \* the rounds resolved by the step that led to this state
    nckpt,           \* checkpoint events so far
    regs,            \* history: <<epoch, instance>> of the REGISTER messages counted
    sigpend,         \* per process: a signal is pending for the thread in validate
    freed,           \* per process: a failing init has freed the context
    cmp              \* a direct use of the comparator: its arguments and results

sysvars == <<num_instances, pc, ctx, enabled, ckptflag, counter, saved, gen, elapsed,
             calls, conns, backlog, listener, csock0, std0, phase, registered,
             master, g_client_fds, slot, epoch, got, emitted, resolved, nckpt,
             regs, sigpend, freed>>

vars == <<sysvars, cmp>>

sysvarsButContext ==
    <<num_instances, enabled, ckptflag, counter, saved, gen, elapsed,
      calls, conns, backlog, listener, csock0, std0, phase, registered,
      master, g_client_fds, slot, epoch, got, emitted, nckpt, regs>>

sysvarsButSignal ==
    <<num_instances, pc, ctx, enabled, ckptflag, counter, saved, gen, elapsed,
      calls, conns, backlog, listener, csock0, std0, phase, registered,
      master, g_client_fds, slot, epoch, got, emitted, resolved, nckpt, regs>>

Inst == 0 .. (num_instances - 1)

\* the hosted computation of a run with n instances: the number of validate
\* calls each instance makes, the number of checkpoints taken and the
\* fingerprints the calls may pass, whether the computation calls cleanup
\* after its last validate call, whether it also calls cleanup before init
\* and a second time at its end, and whether socket() can fail in init; the
\* runs with the most instances are the shortest ones and use all the
\* fingerprints
Workload(n) ==
    IF n < MaxN
    THEN [calls |-> MaxCalls, ckpts |-> MaxCkpt, fps |-> {FpPlus, FpMinus},
          cleanup |-> TRUE, early |-> n = 1, faults |-> n = 1]
    ELSE [calls |-> MaxCalls - 1, ckpts |-> MaxCkpt - 1, fps |-> Fingerprints,
          cleanup |-> FALSE, early |-> FALSE, faults |-> FALSE]

\* max_wait_ms / 100 (lines 295-296), the idle slices of the wait loop: the runs
\* with a single instance wait PollSlices slices, the others one slice less
Deadline(n) == IF n = 1 THEN PollSlices ELSE PollSlices - 1
Idx == 0 .. (MAX_INSTANCES - 1)

\* static coordinator_state_t g_coordinator_state = {0}
ZeroSlot ==
    [current_sync_point |-> 0, instances_arrived |-> 0,
     fingerprints |-> [i \in Idx |-> <<>>], instance_ids |-> [i \in Idx |-> 0],
     calls |-> [i \in Idx |-> 0], oob |-> FALSE]

\* the state of the processes P before init_cross_validation is called
InitSystemOn(P) ==
    /\ pc = [p \in P |-> IF Workload(num_instances).early THEN "start" ELSE "boot"]
    /\ ctx = [p \in P |-> FALSE]
    /\ enabled = [p \in P |-> FALSE]
    /\ ckptflag = [p \in P |-> FALSE]
    /\ counter = [p \in P |-> 0]
    /\ saved = [p \in P |-> FALSE]
    /\ gen = [p \in P |-> 0]
    /\ elapsed = [p \in P |-> 0]
    /\ calls = [p \in P |-> 0]
    /\ conns = {}
    /\ backlog = << >>
    /\ listener = -1
    /\ csock0 = -1
    /\ std0 = {0, 1, 2}
    /\ phase = "none"
    /\ registered = 0
    /\ master = {}
    /\ g_client_fds = [i \in Idx |-> 0]
    /\ slot = ZeroSlot
    /\ epoch = 0
    /\ got = {}
    /\ emitted = {}
    /\ resolved = {}
    /\ nckpt = 0
    /\ regs = {}
    /\ sigpend = [p \in P |-> FALSE]
    /\ freed = [p \in P |-> FALSE]

\* in an ordinary run the processes are the instances 0 .. num_instances - 1
InitSystem == InitSystemOn(Inst)

\* the comparator not yet called (results -1) on the arguments fp1, fp2
NoCmp(fp1, fp2) ==
    [fp1 |-> fp1, fp2 |-> fp2, result |-> -1, swapped |-> -1, self |-> -1]

Init ==
    /\ num_instances \in 1 .. MaxN
    /\ InitSystem
    /\ cmp = NoCmp(<<>>, <<>>)

\* ------------------------------------------------------------ connections
\* A connection record: owner and g (the owner's connect count) identify it;
\* cli: the client end is open; srv: "backlog" (not yet accepted), "acc"
\* (accepted, fd is its descriptor in instance 0) or "closed"; c2s and s2c
\* are the byte streams, as sequences of whole validation_message_t records.
Conn(cs, p, g) == CHOOSE c \in cs : c.owner = p /\ c.g = g

HasConn(cs, p, g) == \E c \in cs : c.owner = p /\ c.g = g

\* a connection both ends of which are closed no longer exists
Live(cs) == {c \in cs : c.cli \/ c.srv # "closed"}

Put(cs, old, new) == (cs \ {old}) \cup {new}

Msg(type, id, sp, fp, passed, details, call) ==
    [type |-> type, instance_id |-> id, sync_point |-> sp, fingerprint |-> fp,
     validation_passed |-> passed, mismatch_details |-> details, call |-> call]

\* descriptors open in instance 0
OpenFds0(cs, lst, cs0, std) ==
    std \cup {c.fd : c \in {d \in cs : d.srv = "acc"}}
        \cup (IF lst >= 0 THEN {lst} ELSE {})
        \cup (IF cs0 >= 0 THEN {cs0} ELSE {})

\* socket() and accept() return the lowest descriptor that is not open
LowestFree(used) == CHOOSE f \in 0 .. (Cardinality(used) + 1) :
                        /\ f \notin used
                        /\ \A h \in 0 .. (f - 1) : h \in used

\* close(fd) in instance 0, for an fd that may be an accepted connection
CloseAccepted(cs, fd) ==
    {IF c.srv = "acc" /\ c.fd = fd THEN [c EXCEPT !.srv = "closed"] ELSE c : c \in cs}

\* send(fd, &response, ...) in instance 0: the record reaches the peer when
\* fd is an accepted connection whose client end is open
SendOnFd(cs, fd, m) ==
    {IF c.srv = "acc" /\ c.fd = fd /\ c.cli
     THEN [c EXCEPT !.s2c = Append(@, m)] ELSE c : c \in cs}

\* ------------------------------------------------------------ coordinator
\* The coordinator thread's view while it handles the descriptors of one
\* select() round: w.conns, w.master, w.gfds (g_client_fds), w.registered,
\* w.slot (g_coordinator_state), w.phase, w.n (num_instances), w.dead (the
\* assert of handle_sync_point_message failed), and the history w.got, w.emitted, w.regs,
\* w.res.

\* a reset that leaves the arrays of the previous sync point in place
ResetSlotKeeping(sl, sp) ==
    [sl EXCEPT !.current_sync_point = sp, !.instances_arrived = 0]

\* lines 506-512: memset of the slot for a new sync point
ResetSlot(sl, sp) ==
    [sl EXCEPT !.current_sync_point = sp,
               !.instances_arrived = 0,
               !.fingerprints = [i \in Idx |-> <<>>],
               !.instance_ids = [i \in Idx |-> -1],
               !.calls = [i \in Idx |-> 0]]

\* lines 514-519: store the submission at index instances_arrived; an index
\* past the arrays is recorded in oob
StoreSubmission(sl, m) ==
    LET k == sl.instances_arrived
    IN  IF k \in Idx
        THEN [sl EXCEPT !.fingerprints[k] = m.fingerprint,
                        !.instance_ids[k] = m.instance_id,
                        !.calls[k] = m.call,
                        !.instances_arrived = k + 1]
        ELSE [sl EXCEPT !.instances_arrived = k + 1, !.oob = TRUE]

\* lines 535-548: the first i in 1..n-1 whose fingerprint does not match
\* fingerprints[0], 0 when there is none
RECURSIVE FirstMismatch(_, _, _)
FirstMismatch(fps, i, n) ==
    IF i >= n THEN 0
    ELSE IF ~ compare_fingerprints_with_tolerance(fps[0], fps[i]) THEN i
         ELSE FirstMismatch(fps, i + 1, n)

\* a coordinator that resolves a round without sending the result
BroadcastNone(cs, sl, gfds, n, match, i) == [conns |-> cs, sent |-> {}]

\* lines 566-596: the result is sent to g_client_fds[instance_ids[i]] for
\* i < instances_arrived, when that descriptor is > 0
RECURSIVE Broadcast(_, _, _, _, _, _)
Broadcast(cs, sl, gfds, n, match, i) ==
    IF i >= sl.instances_arrived \/ i \notin Idx
    THEN [conns |-> cs, sent |-> {}]
    ELSE LET id      == sl.instance_ids[i]
             fd      == IF id >= 0 /\ id < MAX_INSTANCES THEN gfds[id] ELSE -1
             other   == IF i = 0 THEN 1 ELSE 0
             details == IF n = 2 THEN sl.fingerprints[other] ELSE <<>>
             m       == Msg(MSG_VALIDATION_RESULT, -1, sl.current_sync_point, <<>>,
                            match, details, 0)
             rest    == Broadcast(IF fd > 0 THEN SendOnFd(cs, fd, m) ELSE cs,
                                  sl, gfds, n, match, i + 1)
         IN  [conns |-> rest.conns,
              sent  |-> rest.sent \cup (IF fd > 0 THEN {id} ELSE {})]

\* the record of a resolved round: its sync point, the instance ids in the
\* slot, whether all pairs of fingerprints match, the validate calls
\* (positions in the hosted program) that produced the fingerprints, the
\* verdict and the instances the result was sent to
RoundRecord(w, sl, match, sent) ==
    [sp |-> sl.current_sync_point,
     ids |-> {sl.instance_ids[i] : i \in 0 .. (w.n - 1)},
     pairs |-> \A i, j \in 0 .. (w.n - 1) :
                  compare_fingerprints_with_tolerance(sl.fingerprints[i],
                                                      sl.fingerprints[j]),
     calls |-> {sl.calls[i] : i \in 0 .. (w.n - 1)},
     match |-> match,
     sent |-> sent]

\* lines 550-597, all instances arrived and they match: broadcast the result
Matched(w, sl, bc) ==
    [w EXCEPT !.res = @ \cup {RoundRecord(w, sl, TRUE, bc.sent)},
              !.emitted = @ \cup {<<w.ep, sl.current_sync_point>>},
              !.conns = bc.conns]

\* lines 553-564, a fingerprint differs from fingerprints[0]: assert(0) ends
\* the process before the broadcast loop is reached
Mismatched(w, sl) ==
    [w EXCEPT !.res = @ \cup {RoundRecord(w, sl, FALSE, {})},
              !.dead = TRUE]

\* lines 530-597, with the slot sl already holding the new submission
Resolve(w, sl) ==
    IF sl.instances_arrived # w.n THEN w
    ELSE IF FirstMismatch(sl.fingerprints, 1, w.n) = 0
         THEN Matched(w, sl, Broadcast(w.conns, sl, w.gfds, w.n, 1, 0))
         ELSE Mismatched(w, sl)

\* the history of handled submissions: <<epoch, sync point, instance, 1>>,
\* and <<..., 2>> when the same submission is handled again
Noted(g, key) == g \cup {IF key \o <<1>> \in g THEN key \o <<2>> ELSE key \o <<1>>}

WithSlot(w, m, sl) ==
    Resolve([w EXCEPT !.slot = sl,
                      !.got = Noted(@, <<w.ep, m.sync_point, m.instance_id>>)], sl)

\* lines 504-519: the slot after the submission m was stored
SlotOnSubmission(sl, m) ==
    StoreSubmission(IF sl.current_sync_point # m.sync_point
                    THEN ResetSlot(sl, m.sync_point)
                    ELSE sl, m)

handle_sync_point_message(w, m) == WithSlot(w, m, SlotOnSubmission(w.slot, m))

\* a coordinator that keeps accepting and registering after the window
InWindowAlways(ph) == ph \in {"reg", "oper"}

\* accept() and the MSG_REGISTER_INSTANCE branch exist only in the loop of
\* lines 622-704, which runs while registered_instances < num_instances
InWindow(ph) == ph = "reg"

\* lines 672-702 and 732-754: one readable descriptor of the select round
\* a coordinator that disconnects the sender of a SHUTDOWN
OnShutdownDisconnects(w, fd) ==
    [w EXCEPT !.conns = {IF c.srv = "acc" /\ c.fd = fd THEN [c EXCEPT !.srv = "closed"]
                         ELSE c : c \in @},
              !.master = @ \ {fd}]

\* lines 698-701 and 750-753: MSG_SHUTDOWN is logged, nothing else
OnShutdown(w, fd) == w

Dispatch(w, fd, m) ==
    IF m.type = MSG_REGISTER_INSTANCE
    THEN IF InWindow(w.phase)
         THEN [w EXCEPT !.gfds[m.instance_id] = fd, !.registered = @ + 1,
                        !.regs = @ \cup {<<w.ep, m.instance_id>>}]
         ELSE w
    ELSE IF m.type = MSG_SYNC_POINT
         THEN handle_sync_point_message(w, m)
         ELSE IF m.type = MSG_SHUTDOWN
              THEN OnShutdown(w, fd)
              ELSE w

ReadFrom(w, fd, c) ==
    IF c.c2s = <<>>
    THEN \* receive_validation_message returns 0: close(fd); FD_CLR
         [w EXCEPT !.conns = Put(@, c, [c EXCEPT !.srv = "closed"]),
                   !.master = @ \ {fd}]
    ELSE Dispatch([w EXCEPT !.conns = Put(@, c, [c EXCEPT !.c2s = Tail(@)])],
                  fd, Head(c.c2s))

ProcessFd(w, fd) ==
    ReadFrom(w, fd, CHOOSE d \in w.conns : d.srv = "acc" /\ d.fd = fd)

\* for (fd = 0; fd <= max_fd; fd++) over the descriptors select reported
MinOf(S) == CHOOSE f \in S : \A h \in S : f <= h

RECURSIVE ProcessReady(_, _)
ProcessReady(w, ready) ==
    IF ready = {} \/ w.dead THEN w
    ELSE ProcessReady(ProcessFd(w, MinOf(ready)), ready \ {MinOf(ready)})

\* the process of instance 0 dies: the kernel closes all its descriptors
KillInstance0(cs) ==
    Live({[c EXCEPT !.srv = "closed",
                    !.cli = IF c.owner = 0 THEN FALSE ELSE c.cli] : c \in cs})

\* the accepted descriptors select reports readable: data or end of stream
ReadyFds ==
    {fd \in master : \E c \in conns :
        c.srv = "acc" /\ c.fd = fd /\ (c.c2s # <<>> \/ ~ c.cli)}

\* the listener is readable and the registration loop is running
CanAccept == InWindow(phase) /\ backlog # <<>>

\* lines 645-669: accept one connection, FD_SET it in master_fds
Accepted(cs, c, fd) == Put(cs, c, [c EXCEPT !.srv = "acc", !.fd = fd])

PassStart ==
    [conns |-> IF CanAccept
               THEN Accepted(conns, Conn(conns, Head(backlog)[1], Head(backlog)[2]),
                             LowestFree(OpenFds0(conns, listener, csock0, std0)))
               ELSE conns,
     master |-> IF CanAccept
                THEN master \cup {LowestFree(OpenFds0(conns, listener, csock0, std0))}
                ELSE master,
     gfds |-> g_client_fds, registered |-> registered, slot |-> slot, phase |-> phase,
     n |-> num_instances, ep |-> epoch, got |-> got, emitted |-> emitted,
     regs |-> regs, res |-> {}, dead |-> FALSE]

\* the state after the round w; when the assert failed instance 0 is gone
PassEnd(w) ==
    /\ backlog' = IF w.dead THEN <<>> ELSE IF CanAccept THEN Tail(backlog) ELSE backlog
    /\ conns' = IF w.dead THEN KillInstance0(w.conns) ELSE Live(w.conns)
    /\ master' = IF w.dead THEN {} ELSE w.master
    /\ g_client_fds' = w.gfds
    /\ registered' = w.registered
    /\ slot' = w.slot
    /\ got' = w.got
    /\ emitted' = w.emitted
    /\ regs' = w.regs
    /\ resolved' = w.res
    /\ phase' = IF w.dead THEN "none"
                ELSE IF phase = "reg" /\ w.registered >= num_instances THEN "oper"
                ELSE phase
    /\ pc' = IF w.dead THEN [pc EXCEPT ![0] = "aborted"] ELSE pc
    /\ listener' = IF w.dead THEN -1 ELSE listener
    /\ csock0' = IF w.dead THEN -1 ELSE csock0

\* One round of the coordinator's select loop (lines 622-704 in the
\* registration loop, 710-756 afterwards): accept one pending connection
\* (registration loop only), then handle every descriptor that was readable.
CoordPass ==
    /\ phase \in {"reg", "oper"}
    /\ ReadyFds # {} \/ CanAccept
    /\ \E w \in {ProcessReady(PassStart, ReadyFds)} : PassEnd(w)
    /\ UNCHANGED <<cmp, sigpend, freed, num_instances, ctx, enabled, ckptflag, counter, saved, gen, elapsed,
                   calls, std0, epoch, nckpt>>

\* ------------------------------------------------------------ participant
\* init_cross_validation, lines 47-130: allocate the context; instance 0
\* creates the listener and starts the coordinator thread
\* an init that leaves the slot of the previous coordinator as it is
KeptSlot(sl) == sl

\* lines 116-117: current_sync_point = -1; instances_arrived = 0
FreshSlot(sl) == [sl EXCEPT !.current_sync_point = -1, !.instances_arrived = 0]

InitServerPart(p) ==
    /\ ctx' = [ctx EXCEPT ![p] = TRUE]
    /\ pc' = [pc EXCEPT ![p] = "initB"]
    /\ IF p = 0
       THEN /\ listener' = LowestFree(OpenFds0(conns, listener, csock0, std0))
            /\ slot' = FreshSlot(slot)
            /\ phase' = "reg"
            /\ registered' = 0
            /\ master' = {}
            /\ epoch' = epoch + 1
       ELSE UNCHANGED <<listener, slot, phase, registered, master, epoch>>

\* an init without the check of num_instances
TooManyNever(n) == FALSE

\* line 48: if (num_instances > MAX_INSTANCES) return -1
TooManyInstances(n) == n > MAX_INSTANCES

InitA(p) ==
    /\ pc[p] \in {"start", "boot"}
    /\ IF TooManyInstances(num_instances)
       THEN /\ pc' = [pc EXCEPT ![p] = "idle"]
            /\ UNCHANGED <<ctx, listener, slot, phase, registered, master, epoch>>
       ELSE InitServerPart(p)
    /\ resolved' = {}
    /\ UNCHANGED <<cmp, sigpend, freed, regs, num_instances, enabled, ckptflag, counter, saved, gen, elapsed, calls,
                   conns, backlog, csock0, std0, g_client_fds, got, emitted, nckpt>>

\* init_cross_validation, lines 131-175: client socket, connect, REGISTER.
\* A refused connect ends init with cleanup_cross_validation(), which returns
\* at once because g_validation_enabled is still 0; so does a socket() that
\* fails (lines 132-136), in the runs whose workload has such faults.
InitB(p) ==
    /\ pc[p] = "initB"
    /\ pc' = [pc EXCEPT ![p] = "idle"]
    /\ \/ /\ csock0' = IF p = 0 THEN LowestFree(OpenFds0(conns, listener, csock0, std0))
                      ELSE csock0
          /\ IF listener >= 0
             THEN /\ gen' = [gen EXCEPT ![p] = @ + 1]
                  /\ conns' = conns \cup
                       {[owner |-> p, g |-> gen[p] + 1, cli |-> TRUE, srv |-> "backlog",
                         fd |-> -1,
                         c2s |-> <<Msg(MSG_REGISTER_INSTANCE, p, 0, <<>>, 0, <<>>, 0)>>,
                         s2c |-> <<>>]}
                  /\ backlog' = Append(backlog, <<p, gen[p] + 1>>)
                  /\ enabled' = [enabled EXCEPT ![p] = TRUE]
             ELSE UNCHANGED <<gen, conns, backlog, enabled>>
       \/ /\ Workload(num_instances).faults
          /\ UNCHANGED <<csock0, gen, conns, backlog, enabled>>
    /\ resolved' = {}
    /\ UNCHANGED <<cmp, sigpend, freed, regs, num_instances, ctx, ckptflag, counter, saved, elapsed, calls,
                   listener, std0, phase, registered, master, g_client_fds, slot, epoch,
                   got, emitted, nckpt>>

\* a validate call that enters while the previous call of the same instance
\* is still waiting for its response
CallerReentrant(p) == pc[p] \in {"idle", "waiting"}

\* cross_validate_sync_point is an ordinary function called by the hosted
\* computation: a call starts only after the previous call has returned
CallerReady(p) == pc[p] = "idle"

\* a skipped call that still counts a sync point
SkipCallCounting(p) ==
    /\ counter' = [counter EXCEPT ![p] = @ + 1]
    /\ UNCHANGED <<pc, conns, elapsed>>

\* lines 244-252: validation is disabled or a checkpoint is in progress,
\* the call returns at once
SkipCall(p) == UNCHANGED <<pc, counter, conns, elapsed>>

\* cross_validate_sync_point, lines 243-289: the guards, the counter and the send
Validate(p, fp) ==
    /\ CallerReady(p)
    /\ calls[p] < Workload(num_instances).calls
    /\ calls' = [calls EXCEPT ![p] = @ + 1]
    /\ IF ~ enabled[p] \/ ~ ctx[p] \/ ckptflag[p]
       THEN SkipCall(p)
       ELSE LET c  == Conn(conns, p, gen[p])
                sp == counter[p] + 1
                m  == Msg(MSG_SYNC_POINT, p, sp, fp, 0, <<>>, calls[p] + 1)
            IN  /\ counter' = [counter EXCEPT ![p] = sp]
                /\ elapsed' = [elapsed EXCEPT ![p] = 0]
                /\ IF c.srv = "closed"
                   THEN \* send fails (EPIPE): return
                        UNCHANGED <<pc, conns>>
                   ELSE /\ conns' = Put(conns, c, [c EXCEPT !.c2s = Append(@, m)])
                        /\ pc' = [pc EXCEPT ![p] = "waiting"]
    /\ resolved' = {}
    /\ UNCHANGED <<cmp, sigpend, freed, regs, num_instances, ctx, enabled, ckptflag, saved, gen, backlog, listener,
                   csock0, std0, phase, registered, master, g_client_fds, slot, epoch,
                   got, emitted, nckpt>>

\* lines 325-331 and 353-371: a complete response was received
RecvResult(p) ==
    /\ pc[p] = "waiting"
    /\ LET c == Conn(conns, p, gen[p])
       IN  /\ c.s2c # <<>>
           /\ LET m  == Head(c.s2c)
                  c1 == [c EXCEPT !.s2c = Tail(@)]
              IN  IF m.validation_passed = 1
                  THEN /\ pc' = [pc EXCEPT ![p] = "idle"]
                       /\ conns' = Put(conns, c, c1)
                       /\ UNCHANGED <<backlog, listener, csock0, phase, master>>
                  ELSE \* line 369: assert(0)
                       /\ pc' = [pc EXCEPT ![p] = "aborted"]
                       /\ conns' = IF p = 0 THEN KillInstance0(conns)
                                   ELSE Live(Put(conns, c, [c1 EXCEPT !.cli = FALSE]))
                       /\ backlog' = IF p = 0 THEN <<>> ELSE backlog
                       /\ listener' = IF p = 0 THEN -1 ELSE listener
                       /\ csock0' = IF p = 0 THEN -1 ELSE csock0
                       /\ phase' = IF p = 0 THEN "none" ELSE phase
                       /\ master' = IF p = 0 THEN {} ELSE master
    /\ elapsed' = [elapsed EXCEPT ![p] = 0]
    /\ resolved' = {}
    /\ UNCHANGED <<cmp, sigpend, freed, regs, num_instances, ctx, enabled, ckptflag, counter, saved, gen, calls,
                   std0, registered, g_client_fds, slot, epoch, got, emitted, nckpt>>

\* a validate call that aborts the process when the connection is closed
RecvClosedAborting(p) ==
    /\ pc[p] = "waiting"
    /\ LET c == Conn(conns, p, gen[p])
       IN  c.s2c = <<>> /\ c.srv = "closed"
    /\ pc' = [pc EXCEPT ![p] = "aborted"]
    /\ elapsed' = [elapsed EXCEPT ![p] = 0]
    /\ resolved' = {}
    /\ UNCHANGED <<cmp, sigpend, freed, regs, num_instances, ctx, enabled, ckptflag, counter, saved, gen, calls,
                   conns, backlog, listener, csock0, std0, phase, registered, master,
                   g_client_fds, slot, epoch, got, emitted, nckpt>>

\* lines 340-344: recv returns 0, the connection was closed
RecvClosed(p) ==
    /\ pc[p] = "waiting"
    /\ LET c == Conn(conns, p, gen[p])
       IN  c.s2c = <<>> /\ c.srv = "closed"
    /\ pc' = [pc EXCEPT ![p] = "idle"]
    /\ elapsed' = [elapsed EXCEPT ![p] = 0]
    /\ resolved' = {}
    /\ UNCHANGED <<cmp, sigpend, freed, regs, num_instances, ctx, enabled, ckptflag, counter, saved, gen, calls,
                   conns, backlog, listener, csock0, std0, phase, registered, master,
                   g_client_fds, slot, epoch, got, emitted, nckpt>>

\* a wait loop that gives up validation when the deadline passes
PollIdleDisabling(p) ==
    /\ pc[p] = "waiting"
    /\ LET c == Conn(conns, p, gen[p])
       IN  c.s2c = <<>> /\ c.srv # "closed"
    /\ IF elapsed[p] + 1 < Deadline(num_instances)
       THEN /\ elapsed' = [elapsed EXCEPT ![p] = @ + 1]
            /\ UNCHANGED <<pc, enabled>>
       ELSE /\ elapsed' = [elapsed EXCEPT ![p] = 0]
            /\ pc' = [pc EXCEPT ![p] = "idle"]
            /\ enabled' = [enabled EXCEPT ![p] = FALSE]
    /\ resolved' = {}
    /\ UNCHANGED <<cmp, sigpend, freed, regs, num_instances, ctx, ckptflag, counter, saved, gen, calls,
                   conns, backlog, listener, csock0, std0, phase, registered, master,
                   g_client_fds, slot, epoch, got, emitted, nckpt>>

\* lines 318-322 and 347-350: select reports nothing for one slice; after
\* max_wait_ms the loop ends and validate returns
PollIdle(p) ==
    /\ pc[p] = "waiting"
    /\ LET c == Conn(conns, p, gen[p])
       IN  c.s2c = <<>> /\ c.srv # "closed"
    /\ IF elapsed[p] + 1 < Deadline(num_instances)
       THEN /\ elapsed' = [elapsed EXCEPT ![p] = @ + 1]
            /\ UNCHANGED pc
       ELSE /\ elapsed' = [elapsed EXCEPT ![p] = 0]
            /\ pc' = [pc EXCEPT ![p] = "idle"]
    /\ resolved' = {}
    /\ UNCHANGED <<cmp, sigpend, freed, regs, num_instances, ctx, enabled, ckptflag, counter, saved, gen, calls,
                   conns, backlog, listener, csock0, std0, phase, registered, master,
                   g_client_fds, slot, epoch, got, emitted, nckpt>>

\* ------------------------------------------------------------- checkpoint
CloseClient(cs, p, g) ==
    {IF c.owner = p /\ c.g = g THEN [c EXCEPT !.cli = FALSE] ELSE c : c \in cs}

\* close(server_socket): connections not yet accepted are reset
CloseListener(cs) ==
    {IF c.srv = "backlog" THEN [c EXCEPT !.srv = "closed"] ELSE c : c \in cs}

\* lines 200-206: close(g_client_fds[i]) for every entry >= 0
RECURSIVE CloseClientFds(_, _, _)
CloseClientFds(cs, gfds, i) ==
    IF i >= MAX_INSTANCES THEN cs
    ELSE CloseClientFds(IF gfds[i] >= 0 THEN CloseAccepted(cs, gfds[i]) ELSE cs,
                        gfds, i + 1)

\* a close that leaves the coordinator thread running
NotCancelled(ph) == ph

\* lines 183-187: pthread_cancel and pthread_join of the coordinator thread,
\* the first thing close_validation_sockets does after setting the flag
CancelAndJoin(ph) == "none"

\* close_validation_sockets, lines 177-212
close_validation_sockets(p, cs) ==
    /\ ckptflag' = [ckptflag EXCEPT ![p] = TRUE]
    /\ IF p = 0
       THEN /\ phase' = CancelAndJoin(phase)
            /\ master' = IF CancelAndJoin(phase) = "none" THEN {} ELSE master
            /\ csock0' = -1
            /\ listener' = -1
            /\ backlog' = <<>>
            /\ conns' = Live(CloseClientFds(CloseListener(CloseClient(cs, 0, gen[0])),
                                            g_client_fds, 0))
            /\ std0' = std0 \ {g_client_fds[i] : i \in Idx}
            /\ g_client_fds' = [i \in Idx |-> IF g_client_fds[i] >= 0 THEN -1
                                              ELSE g_client_fds[i]]
       ELSE /\ conns' = Live(CloseClient(cs, p, gen[p]))
            /\ UNCHANGED <<phase, master, csock0, listener, backlog, std0, g_client_fds>>

\* send_validation_message(&msg) on the client socket of p: the record is
\* queued when the socket is connected and the peer end is open
SendFromClient(cs, p, g, m) ==
    {IF c.owner = p /\ c.g = g /\ c.srv # "closed"
     THEN [c EXCEPT !.c2s = Append(@, m)] ELSE c : c \in cs}

\* a cleanup that returns early only when there is no context
CleanupIgnoresEnabled(p) == ~ ctx[p]

\* line 215: if (!g_validation_enabled || !g_validation_context) return;
CleanupReturnsEarly(p) == ~ enabled[p] \/ ~ ctx[p]

\* cleanup_cross_validation, lines 214-234, called by the hosted computation
\* before init or after its last validate call
Cleanup(p) ==
    /\ \/ pc[p] = "start" /\ pc' = [pc EXCEPT ![p] = "boot"]
       \/ /\ pc[p] = "idle" /\ calls[p] = Workload(num_instances).calls
          /\ Workload(num_instances).cleanup
          /\ pc' = [pc EXCEPT ![p] = "cleaned"]
       \/ /\ pc[p] = "cleaned" /\ Workload(num_instances).early
          /\ pc' = [pc EXCEPT ![p] = "finished"]
    /\ IF CleanupReturnsEarly(p)
       THEN UNCHANGED <<ckptflag, phase, master, csock0, listener, backlog, conns,
                           std0, g_client_fds, ctx, enabled>>
       ELSE /\ close_validation_sockets(p,
                   SendFromClient(conns, p, gen[p],
                                  Msg(MSG_SHUTDOWN, p, 0, <<>>, 0, <<>>, 0)))
            /\ ctx' = [ctx EXCEPT ![p] = FALSE]
            /\ enabled' = [enabled EXCEPT ![p] = FALSE]
    /\ resolved' = {}
    /\ UNCHANGED <<cmp, sigpend, freed, regs, num_instances, counter, saved, gen, elapsed, calls,
                   registered, slot, epoch, got, emitted, nckpt>>

\* cross_validation_EventHook, DMTCP_EVENT_PRECHECKPOINT (lines 771-788)
PreCheckpointEvent(p) ==
    /\ nckpt' = nckpt + 1
    /\ pc' = [pc EXCEPT ![p] = "ckpt"]
    /\ IF ctx[p]
       THEN /\ saved' = [saved EXCEPT ![p] = TRUE]
            /\ close_validation_sockets(p, conns)
            /\ ctx' = [ctx EXCEPT ![p] = FALSE]
            /\ enabled' = [enabled EXCEPT ![p] = FALSE]
       ELSE UNCHANGED <<saved, ckptflag, phase, master, csock0, listener, backlog, conns,
                        std0, g_client_fds, ctx, enabled>>
    /\ resolved' = {}
    /\ UNCHANGED <<cmp, sigpend, freed, regs, num_instances, counter, gen, elapsed, calls, registered, slot,
                   epoch, got, emitted>>

\* the event delivered between two validate calls
PreCheckpointHook(p) ==
    /\ pc[p] = "idle"
    /\ PreCheckpointEvent(p)

\* a checkpoint of p, one of the checkpoints the workload of the run has
PreCheckpoint(p) ==
    /\ nckpt < Workload(num_instances).ckpts
    /\ PreCheckpointHook(p)

\* cross_validation_EventHook, DMTCP_EVENT_RESUME (lines 790-811), up to the
\* usleep of the init it calls
Resume(p) ==
    /\ pc[p] = "ckpt"
    /\ ckptflag' = [ckptflag EXCEPT ![p] = FALSE]
    /\ IF saved[p]
       THEN /\ counter' = [counter EXCEPT ![p] = 0]
            /\ g_client_fds' = IF p = 0 THEN [i \in Idx |-> -1] ELSE g_client_fds
            /\ InitServerPart(p)
       ELSE /\ pc' = [pc EXCEPT ![p] = "idle"]
            /\ UNCHANGED <<counter, g_client_fds, ctx, listener, slot, phase, registered,
                           master, epoch>>
    /\ resolved' = {}
    /\ UNCHANGED <<cmp, sigpend, freed, regs, num_instances, enabled, saved, gen, elapsed, calls, conns,
                   backlog, csock0, std0, got, emitted, nckpt>>

\* ---------------------------------------------------------- specification
Next ==
    \/ \E p \in Inst : InitA(p)
    \/ \E p \in Inst : InitB(p)
    \/ \E p \in Inst : \E fp \in Workload(num_instances).fps : Validate(p, fp)
    \/ \E p \in Inst : RecvResult(p)
    \/ \E p \in Inst : RecvClosed(p)
    \/ \E p \in Inst : PollIdle(p)
    \/ \E p \in Inst : PreCheckpoint(p)
    \/ \E p \in Inst : Resume(p)
    \/ \E p \in Inst : Cleanup(p)
    \/ CoordPass

Spec == Init /\ [][Next]_vars

\* ------------------------------------- every process checkpointed once
\* Two instances that are each checkpointed and resumed once, at independent
\* moments, while the hosted computations make no validate call.
CkptInst == {0, 1}

CheckpointOnce(p) ==
    /\ ~ saved[p]
    /\ nckpt < num_instances
    /\ PreCheckpointHook(p)

InitCkpt ==
    /\ num_instances = 2
    /\ InitSystem
    /\ cmp = NoCmp(<<>>, <<>>)

NextCkpt ==
    \/ \E p \in Inst : InitA(p)
    \/ \E p \in Inst : InitB(p)
    \/ \E p \in Inst : CheckpointOnce(p)
    \/ \E p \in Inst : Resume(p)
    \/ CoordPass

\* every process and the coordinator thread keep running, and every process
\* is eventually checkpointed
SpecCkpt ==
    /\ InitCkpt
    /\ [][NextCkpt]_vars
    /\ WF_vars(CoordPass)
    /\ \A p \in CkptInst :
          /\ WF_vars(InitA(p))
          /\ WF_vars(InitB(p))
          /\ WF_vars(CheckpointOnce(p))
          /\ WF_vars(Resume(p))

\* ------------------------------------------- runs with other arguments
\* The arguments of init come from the environment of each process
\* (CROSS_VALIDATION_INSTANCE_ID, CROSS_VALIDATION_NUM_INSTANCES): a run of
\* two instances one of which was given the id 2, and a run that was given
\* one instance more than MAX_INSTANCES.
ArgRuns == {[n |-> 2, ids |-> {0, 2}], [n |-> MAX_INSTANCES + 1, ids |-> {0, 1}]}

\* the processes of a run
Procs == DOMAIN pc

InitArgs ==
    /\ \E r \in ArgRuns : num_instances = r.n /\ InitSystemOn(r.ids)
    /\ cmp = NoCmp(<<>>, <<>>)

NextArgs ==
    \/ \E p \in Procs : InitA(p)
    \/ \E p \in Procs : InitB(p)
    \/ \E p \in Procs : \E fp \in Workload(num_instances).fps : Validate(p, fp)
    \/ \E p \in Procs : RecvResult(p)
    \/ \E p \in Procs : RecvClosed(p)
    \/ \E p \in Procs : PollIdle(p)
    \/ CoordPass

SpecArgs == InitArgs /\ [][NextArgs]_vars

\* ------------------------------------------ init called again after cleanup
\* the hosted computation of these runs has two phases: after the cleanup
\* that ends the first it calls init_cross_validation again and makes its
\* validate calls again; no checkpoint is taken
MaxInits == 2

\* the call of init_cross_validation that opens the next phase
Reinit(p) ==
    /\ pc[p] = "cleaned"
    /\ gen[p] < MaxInits /\ epoch < MaxInits
    /\ pc' = [pc EXCEPT ![p] = "boot"]
    /\ calls' = [calls EXCEPT ![p] = 0]
    /\ resolved' = {}
    /\ UNCHANGED <<cmp, sigpend, freed, regs, num_instances, ctx, enabled, ckptflag, counter, saved, gen,
                   elapsed, conns, backlog, listener, csock0, std0, phase, registered,
                   master, g_client_fds, slot, epoch, got, emitted, nckpt>>

InitReinit ==
    /\ num_instances \in 1 .. (MaxN - 1)
    /\ InitSystem
    /\ cmp = NoCmp(<<>>, <<>>)

NextReinit ==
    \/ \E p \in Inst : InitA(p)
    \/ \E p \in Inst : InitB(p)
    \/ \E p \in Inst : \E fp \in Workload(num_instances).fps : Validate(p, fp)
    \/ \E p \in Inst : RecvResult(p)
    \/ \E p \in Inst : RecvClosed(p)
    \/ \E p \in Inst : PollIdle(p)
    \/ \E p \in Inst : Cleanup(p)
    \/ \E p \in Inst : Reinit(p)
    \/ CoordPass

SpecReinit == InitReinit /\ [][NextReinit]_vars

\* ------------------------------------------------ checkpoints after cleanup
\* the runs of a single instance in which checkpoints are also taken after
\* the hosted computation has called cleanup, MaxCycles checkpoints in all;
\* the connection of the instance is never closed under a waiting call
MaxCycles == 2

CheckpointAnytime(p) ==
    /\ pc[p] \in {"idle", "cleaned"}
    /\ nckpt < MaxCycles
    /\ PreCheckpointEvent(p)

InitCycles ==
    /\ num_instances = 1
    /\ InitSystem
    /\ cmp = NoCmp(<<>>, <<>>)

NextCycles ==
    \/ \E p \in Inst : InitA(p)
    \/ \E p \in Inst : InitB(p)
    \/ \E p \in Inst : \E fp \in Workload(num_instances).fps : Validate(p, fp)
    \/ \E p \in Inst : RecvResult(p)
    \/ \E p \in Inst : PollIdle(p)
    \/ \E p \in Inst : Cleanup(p)
    \/ \E p \in Inst : CheckpointAnytime(p)
    \/ \E p \in Inst : Resume(p)
    \/ CoordPass

SpecCycles == InitCycles /\ [][NextCycles]_vars

\* ------------------------------------------------- signals during the wait
\* the runs in which signals are delivered to a process while its validate
\* call waits in select; no checkpoint is taken and cleanup is not called
SignalArrives(p) ==
    /\ pc[p] = "waiting"
    /\ ~ sigpend[p]
    /\ sigpend' = [sigpend EXCEPT ![p] = TRUE]
    /\ UNCHANGED <<cmp, freed, sysvarsButSignal>>

\* lines 307-311: select returns -1 with errno EINTR; continue, elapsed_ms
\* is not advanced
PollInterrupted(p) ==
    /\ pc[p] = "waiting"
    /\ sigpend[p]
    /\ sigpend' = [sigpend EXCEPT ![p] = FALSE]
    /\ UNCHANGED <<cmp, freed, sysvarsButSignal>>

\* a slice of select that no signal interrupts
WaitSlice(p) ==
    /\ ~ sigpend[p]
    /\ PollIdle(p)

\* these runs have two instances of which only instance 0 reaches its sync
\* points: the coordinator never has a result to send
InitWait ==
    /\ num_instances = 2
    /\ InitSystem
    /\ cmp = NoCmp(<<>>, <<>>)

NextWait ==
    \/ \E p \in Inst : InitA(p)
    \/ \E p \in Inst : InitB(p)
    \/ \E fp \in Workload(num_instances).fps : Validate(0, fp)
    \/ WaitSlice(0)
    \/ SignalArrives(0)
    \/ PollInterrupted(0)
    \/ CoordPass

\* every thread that can run does run; when signals arrive is left open
SpecWait ==
    /\ InitWait
    /\ [][NextWait]_vars
    /\ WF_vars(CoordPass)
    /\ WF_vars(InitA(0)) /\ WF_vars(InitB(0))
    /\ WF_vars(InitA(1)) /\ WF_vars(InitB(1))
    /\ WF_vars(WaitSlice(0))
    /\ WF_vars(PollInterrupted(0))

\* ------------------------------------------- init fails in its server part
\* the runs in which the listener of instance 0 cannot be set up (socket,
\* bind or listen fails, lines 86-115): init frees the context and returns
\* -1, g_validation_context keeps its value
InitServerFails(p) ==
    /\ p = 0
    /\ pc[p] \in {"start", "boot"}
    /\ ~ TooManyInstances(num_instances)
    /\ pc' = [pc EXCEPT ![p] = "idle"]
    /\ ctx' = [ctx EXCEPT ![p] = TRUE]
    /\ freed' = [freed EXCEPT ![p] = TRUE]
    /\ resolved' = {}
    /\ UNCHANGED <<cmp, sigpend, sysvarsButContext>>

\* the pre-checkpoint hook reads the freed context (lines 775-778) and frees
\* it again (line 784): one outcome is that the process is killed, the other
\* that the freed memory still holds the context and the hook goes on
PreCheckpointOnFreed(p) ==
    /\ pc[p] = "idle"
    /\ ctx[p] /\ freed[p]
    /\ nckpt < Workload(num_instances).ckpts
    /\ nckpt' = nckpt + 1
    /\ pc' = [pc EXCEPT ![p] = "aborted"]
    /\ resolved' = {}
    /\ UNCHANGED <<cmp, sigpend, freed, num_instances, ctx, enabled, ckptflag, counter,
                   saved, gen, elapsed, calls, conns, backlog, listener, csock0, std0,
                   phase, registered, master, g_client_fds, slot, epoch, got, emitted,
                   regs>>

InitFail ==
    /\ num_instances \in 1 .. (MaxN - 1)
    /\ InitSystem
    /\ cmp = NoCmp(<<>>, <<>>)

NextFail ==
    \/ \E p \in Inst : InitA(p)
    \/ \E p \in Inst : InitServerFails(p)
    \/ \E p \in Inst : InitB(p)
    \/ \E p \in Inst : \E fp \in Workload(num_instances).fps : Validate(p, fp)
    \/ \E p \in Inst : RecvResult(p)
    \/ \E p \in Inst : RecvClosed(p)
    \/ \E p \in Inst : PollIdle(p)
    \/ \E p \in Inst : Cleanup(p)
    \/ \E p \in Inst : PreCheckpoint(p)
    \/ \E p \in Inst : PreCheckpointOnFreed(p)
    \/ CoordPass

SpecFail == InitFail /\ [][NextFail]_vars

\* ------------------------------------------------- the comparator by itself
\* the fingerprints the comparator is called with: "", "0", "1", "1.0", "2",
\* "1e-10", "2e-10", "-1e-10", "nan", "inf", "-inf", "x", "1x", "a=1", "a 1",
\* "1 a", "a=1 b"
CmpInputs ==
    { <<>>, <<"0">>, <<"1">>, <<"1", ".", "0">>, <<"2">>,
      <<"1", "e", "-", "1", "0">>, <<"2", "e", "-", "1", "0">>,
      <<"-", "1", "e", "-", "1", "0">>,
      <<"n", "a", "n">>, <<"i", "n", "f">>, <<"-", "i", "n", "f">>,
      <<"x">>, <<"1", "x">>,
      <<"a", "=", "1">>, <<"a", " ", "1">>, <<"1", " ", "a">>,
      <<"a", "=", "1", " ", "b">> }

\* the int the function returns
AsInt(b) == IF b THEN 1 ELSE 0

\* compare_fingerprints_with_tolerance(fp1, fp2)
Compare ==
    /\ cmp.result = -1
    /\ cmp' = [cmp EXCEPT !.result =
                  AsInt(compare_fingerprints_with_tolerance(cmp.fp1, cmp.fp2))]
    /\ UNCHANGED sysvars

\* compare_fingerprints_with_tolerance(fp2, fp1)
CompareSwapped ==
    /\ cmp.swapped = -1
    /\ cmp' = [cmp EXCEPT !.swapped =
                  AsInt(compare_fingerprints_with_tolerance(cmp.fp2, cmp.fp1))]
    /\ UNCHANGED sysvars

\* compare_fingerprints_with_tolerance(fp1, fp1)
CompareSelf ==
    /\ cmp.self = -1
    /\ cmp' = [cmp EXCEPT !.self =
                  AsInt(compare_fingerprints_with_tolerance(cmp.fp1, cmp.fp1))]
    /\ UNCHANGED sysvars

InitCmp ==
    /\ num_instances = 1
    /\ InitSystem
    /\ \E a \in CmpInputs : \E b \in CmpInputs : cmp = NoCmp(a, b)

NextCmp == Compare \/ CompareSwapped \/ CompareSelf

SpecCmp == InitCmp /\ [][NextCmp]_vars

\* ------------------------------------------------------------------ claims

\* C1: the coordinator sends a VALIDATION_RESULT for sync point s only after
\* it has received, since the slot for s was last reset, a SYNC_POINT with id
\* s from each of the N distinct instance ids 0..N-1: every round for which a
\* result is broadcast holds the submissions of all the instances.
C1_BroadcastOnlyWithAllInstances ==
    \A r \in resolved : r.match => r.ids = Inst

\* C2: the verdict of a resolved round is 1 exactly when every pair (i, j) of
\* the submitted fingerprints matches under the tolerant comparator, the pairs
\* that do not involve the first-arrived fingerprint included.
C2_VerdictIsPairwise ==
    \A r \in resolved : r.match <=> r.pairs

\* C3: when the coordinator's comparison for a sync point finds a mismatch,
\* no participant that submitted that sync point returns from its validate
\* call and continues: a participant waiting for the mismatched round never
\* goes back to the hosted computation.
C3_NoReturnAfterMismatch ==
    [][\A p \in Inst \ {0} :
          (/\ pc[0] = "aborted"
           /\ slot.instances_arrived = num_instances
           /\ FirstMismatch(slot.fingerprints, 1, num_instances) # 0
           /\ \E i \in 0 .. (num_instances - 1) : slot.instance_ids[i] = p
           /\ slot.current_sync_point = counter[p]
           /\ pc[p] = "waiting")
          => pc'[p] # "idle"]_vars

\* C4: on a mismatch the coordinator sends a VALIDATION_RESULT with
\* validation_passed = 0 to every participant of the round before it aborts:
\* a round resolved as a mismatch has sent its result to all its instances.
C4_MismatchIsBroadcast ==
    \A r \in resolved : ~ r.match => r.ids \subseteq r.sent

\* C5: a participant waiting in validate for sync point s never takes as its
\* outcome a VALIDATION_RESULT produced for a different sync point: the
\* response a validate call consumes carries the sync point it submitted.
C5_ResultIsForSubmittedSyncPoint ==
    [][\A p \in Inst :
          RecvResult(p)
          => Head(Conn(conns, p, gen[p]).s2c).sync_point = counter[p]]_vars

\* C6: if every one of the N participants submits SYNC_POINT s, each exactly
\* once, while the coordinator is running, the coordinator emits a
\* VALIDATION_RESULT for s, whatever the interleaving with submissions for
\* other sync points: once the running coordinator has handled the submission
\* of s of every instance, the result for s has been broadcast.
C6_AllSubmittedImpliesResult ==
    \A s \in 1 .. MaxCalls :
        (/\ phase \in {"reg", "oper"}
         /\ \A q \in Inst : /\ <<epoch, s, q, 1>> \in got
                            /\ <<epoch, s, q, 2>> \notin got)
        => <<epoch, s>> \in emitted

\* C7 as stated: a participant that has submitted sync point k does not
\* submit sync point k+1 until the coordinator has broadcast the result for k.
C7_NextOnlyAfterBroadcast ==
    [][\A p \in Inst :
          (nckpt = 0 /\ counter[p] >= 1 /\ counter'[p] = counter[p] + 1)
          => <<epoch, counter[p]>> \in emitted]_vars

\* C7, amended: a participant that has submitted sync point k does not submit
\* sync point k+1 until its validate call for k has returned (with the
\* result, on the deadline or on a transport failure): a submission is made
\* only by a participant that is not waiting inside validate, with validation
\* enabled and no checkpoint in progress.
C7_NextOnlyAfterReturn ==
    [][\A p \in Inst :
          counter'[p] = counter[p] + 1
          => (pc[p] = "idle" /\ enabled[p] /\ ctx[p] /\ ~ ckptflag[p])]_vars

\* a participant waits in its second validate call although no result was
\* ever broadcast for its first one
C7_Witness ==
    \E p \in Inst :
        /\ nckpt = 0
        /\ counter[p] = 2
        /\ pc[p] = "waiting"
        /\ emitted = {}

\* C8: when all participants make the same sequence of validate calls, any
\* two fingerprints the coordinator compares in one round were produced by
\* the same call of that sequence, also in runs with skipped calls or with a
\* checkpoint/resume that resets the counters: a resolved round that holds a
\* submission of every instance compares fingerprints of one call.
C8_RoundComparesSameCall ==
    \A r \in resolved : r.ids = Inst => Cardinality(r.calls) = 1

\* C9: a participant that submitted sync point s early stays blocked in
\* validate until the last submission of s has arrived: a validate call
\* returns with validation_passed = 1 only when the coordinator has handled
\* the submission of the call's sync point of every instance.
C9_BlockedUntilAllSubmitted ==
    [][\A p \in Inst :
          (nckpt = 0 /\ RecvResult(p) /\ pc'[p] = "idle")
          => \A q \in Inst : <<epoch, counter[p], q, 1>> \in got]_vars

C12_MatchIffTokensMatch ==
    cmp.result # -1 =>
        (cmp.result = 1 <=>
            LET ta == Tokenize(cmp.fp1)
                tb == Tokenize(cmp.fp2)
            IN  /\ Len(ta) = Len(tb)
                /\ \A i \in 1 .. Len(ta) :
                      IF /\ Strtod(ta[i]).end = Len(ta[i]) + 1
                         /\ Strtod(tb[i]).end = Len(tb[i]) + 1
                      THEN \/ ta[i] = tb[i]
                           \/ /\ Strtod(ta[i]).kind = "fin"
                              /\ Strtod(tb[i]).kind = "fin"
                              /\ ~ DecExceeds(Strtod(ta[i]).s, Strtod(ta[i]).e,
                                              Strtod(tb[i]).s, Strtod(tb[i]).e)
                      ELSE ta[i] = tb[i])

\* C13: the fingerprint comparator is reflexive and symmetric: compare(a, a)
\* is a match for every fingerprint a, and compare(a, b) equals compare(b, a)
\* for every pair of fingerprints a, b.
C13_ReflexiveSymmetric ==
    /\ cmp.self # -1 => cmp.self = 1
    /\ (cmp.result # -1 /\ cmp.swapped # -1) => cmp.result = cmp.swapped

\* the comparator was called in both orders on two different fingerprints
\* that match ("1" and "1.0", or "0" and "1e-10"), and on a fingerprint with
\* itself
C13_Witness ==
    /\ cmp.fp1 # cmp.fp2
    /\ cmp.result = 1
    /\ cmp.swapped = 1
    /\ cmp.self = 1

\* C10: if no complete VALIDATION_RESULT arrives within the deadline, validate
\* returns to the caller without aborting the process and without treating
\* the round as a mismatch, and validation stays enabled for later calls. A
\* step of a participant that waits with an empty, open response stream
\* either counts one more idle slice below the deadline, or returns at the
\* deadline with validation enabled, the context kept, the connection
\* untouched and no process aborted.
C10_TimeoutReturnsEnabled ==
    [][\A p \in Inst :
          (/\ pc[p] = "waiting"
           /\ Conn(conns, p, gen[p]).s2c = <<>>
           /\ Conn(conns, p, gen[p]).srv # "closed"
           /\ phase' = phase
           /\ (pc'[p] # pc[p] \/ elapsed'[p] # elapsed[p] \/ enabled'[p] # enabled[p]))
          => IF elapsed[p] + 1 < Deadline(num_instances)
             THEN /\ pc'[p] = "waiting"
                  /\ elapsed'[p] = elapsed[p] + 1
                  /\ enabled'[p] = enabled[p]
             ELSE /\ pc'[p] = "idle"
                  /\ enabled'[p] /\ ctx'[p] /\ ~ ckptflag'[p]
                  /\ counter'[p] = counter[p]
                  /\ conns' = conns
                  /\ \A q \in Inst : pc'[q] = "aborted" => pc[q] = "aborted"]_vars

\* a participant is back in the hosted computation after its first validate
\* call although no result was ever broadcast and its connection is open: the
\* call ended on the deadline, and validation is still enabled
C10_Witness ==
    \E p \in Inst :
        /\ nckpt = 0
        /\ pc[p] = "idle"
        /\ counter[p] = 1
        /\ emitted = {}
        /\ enabled[p]
        /\ Conn(conns, p, gen[p]).srv # "closed"
        /\ Conn(conns, p, gen[p]).s2c = <<>>

\* the step is a cleanup_cross_validation call of p made by the hosted
\* computation: before init, after the last validate call, or once more
CleanupStep(p) ==
    \/ pc[p] = "start" /\ pc'[p] = "boot"
    \/ pc[p] = "idle" /\ pc'[p] = "cleaned"
    \/ pc[p] = "cleaned" /\ pc'[p] = "finished"

\* C14: after cleanup returns on a process where init had succeeded, none of
\* the validation system's endpoints remains open: the client stream is
\* closed and, on the coordinator-hosting process, the listener is closed,
\* the coordinator thread no longer runs and every connection the
\* coordinator accepted, registered or not, is closed.
C14_CleanupClosesEveryEndpoint ==
    [][\A p \in Inst :
          (CleanupStep(p) /\ enabled[p] /\ ctx[p])
          => /\ \A c \in conns' : c.owner = p => ~ c.cli
             /\ p = 0 => /\ listener' = -1
                         /\ phase' = "none"
                         /\ \A c \in conns' : c.srv # "acc"]_vars

\* C15: cleanup is idempotent: a cleanup call that finds validation disabled
\* or no context (a second cleanup directly after a first one, a cleanup
\* before init was ever called, a cleanup after a failed init) changes no
\* state, sends no message and closes no endpoint.
C15_CleanupIdempotent ==
    [][\A p \in Inst :
          (CleanupStep(p) /\ (~ enabled[p] \/ ~ ctx[p]))
          => /\ conns' = conns /\ backlog' = backlog
             /\ <<listener, csock0, std0, master, g_client_fds>>'
                    = <<listener, csock0, std0, master, g_client_fds>>
             /\ <<enabled, ctx, ckptflag, counter, saved, gen, elapsed>>'
                    = <<enabled, ctx, ckptflag, counter, saved, gen, elapsed>>
             /\ <<phase, registered, slot, epoch>>' = <<phase, registered, slot, epoch>>]_vars

\* a process has made its second cleanup call directly after a first one
\* that tore the validation system down (the flag close_validation_sockets
\* sets is still up, the context is gone)
C15_Witness ==
    \E p \in Inst :
        pc[p] = "finished" /\ ckptflag[p] /\ ~ enabled[p] /\ ~ ctx[p]

\* C16: when init fails on the coordinator-hosting process after the
\* coordinator was started, the cleanup performed on that path stops the
\* coordinator thread, closes the listener and the client endpoint and
\* releases the context, so that no endpoint stays open after the failed init.
C16_FailedInitReleasesAll ==
    [][(pc[0] = "initB" /\ pc'[0] = "idle" /\ ~ enabled'[0])
       => /\ phase' = "none"
          /\ listener' = -1
          /\ csock0' = -1
          /\ ~ ctx'[0]]_vars

\* C17: in every reachable coordinator state the live slot holds exactly
\* instances_arrived entries, at the indices 0 .. instances_arrived - 1, and
\* the instance ids of these entries are pairwise distinct.
C17_SlotEntriesDistinct ==
    phase # "none"
    => /\ slot.instances_arrived \in 0 .. MAX_INSTANCES
       /\ \A i \in Idx :
             i < slot.instances_arrived => slot.instance_ids[i] \in Inst
       /\ \A i, j \in Idx :
             (i < j /\ j < slot.instances_arrived)
             => slot.instance_ids[i] # slot.instance_ids[j]

\* C18: the coordinator leaves the registration window only when
\* num_instances distinct instance ids have registered with it; a REGISTER
\* that repeats an already registered id does not count towards closing
\* the window.
C18_WindowClosesOnDistinctIds ==
    phase = "oper" => \A id \in Inst : <<epoch, id>> \in regs

\* C19: once the registration window has closed, membership is fixed until
\* teardown: the coordinator accepts no further connection, ignores every
\* later REGISTER message, and the registration table keeps the entries it
\* had when the window closed.
C19_MembershipFixedAfterWindow ==
    [][(phase = "oper" /\ phase' = "oper")
       => /\ g_client_fds' = g_client_fds
          /\ registered' = registered
          /\ regs' = regs
          /\ \A d \in conns' :
                d.srv = "acc"
                => \E c \in conns :
                      c.owner = d.owner /\ c.g = d.g /\ c.srv = "acc" /\ c.fd = d.fd]_vars

\* the window has closed and the coordinator has read, on a connection it
\* had accepted, the REGISTER of an instance that is not registered with it
C19_Witness ==
    /\ phase = "oper"
    /\ \E c \in conns :
          /\ c.srv = "acc"
          /\ \A k \in 1 .. Len(c.c2s) : c.c2s[k].type # MSG_REGISTER_INSTANCE
          /\ <<epoch, c.owner>> \notin regs

\* C20: after a pre-checkpoint followed by a resume on a participant, its
\* sync-point counter is 0, so its next performed validate is submitted with
\* id 1; on the coordinator-hosting process the re-created coordinator starts
\* with a fresh slot (no current id, instances_arrived = 0), an empty
\* registration table and no connection, accepted or pending, so the first
\* round after resume contains only submissions made after resume.
C20_ResumeStartsAfresh ==
    [][\A p \in Inst :
          /\ (pc[p] = "ckpt" /\ pc'[p] # "ckpt")
             => /\ counter'[p] = 0
                /\ p = 0 => /\ slot'.current_sync_point = -1
                            /\ slot'.instances_arrived = 0
                            /\ g_client_fds' = [i \in Idx |-> -1]
                            /\ registered' = 0
                            /\ master' = {}
                            /\ backlog' = <<>>
                            /\ phase' = "reg"
          /\ (counter[p] = 0 /\ counter'[p] # 0)
             => /\ counter'[p] = 1
                /\ \A c \in conns' :
                      (c.owner = p /\ c.g = gen[p] /\ c.srv # "closed")
                      => c.c2s[Len(c.c2s)].type = MSG_SYNC_POINT
                         /\ c.c2s[Len(c.c2s)].sync_point = 1]_vars

\* instance 0 was checkpointed and resumed after its first coordinator had
\* handled its sync point 1, and the re-created coordinator has handled the
\* submission instance 0 made after the resume, again with id 1
C20_Witness ==
    /\ epoch = 2
    /\ <<1, 1, 0, 1>> \in got
    /\ <<2, 1, 0, 1>> \in got

\* every process has gone through pre-checkpoint and resume
AllResumed == \A p \in Inst : saved[p] /\ pc[p] # "ckpt"

\* every participant has validation enabled and an open connection that the
\* running coordinator has accepted and recorded in its registration table
TopologyEstablished ==
    /\ phase \in {"reg", "oper"}
    /\ \A p \in Inst :
          /\ enabled[p]
          /\ <<epoch, p>> \in regs
          /\ \E c \in conns :
                /\ c.owner = p /\ c.g = gen[p] /\ c.cli
                /\ c.srv = "acc" /\ g_client_fds[p] = c.fd

\* C21: after every participant process has gone through pre-checkpoint and
\* resume, the full topology is eventually re-established: every participant
\* is again connected to and registered with the new coordinator and has
\* validation enabled, whatever the order in which the processes checkpoint
\* and resume.
C21_TopologyReestablished == AllResumed ~> TopologyEstablished

\* C22: init called with num_instances > MAX_INSTANCES returns an error and
\* has no other effect: no context is allocated, no endpoint is opened, no
\* coordinator is started and validation stays disabled.
C22_TooManyInstancesRejected ==
    [][\A p \in Procs :
          (/\ num_instances > MAX_INSTANCES
           /\ pc[p] \in {"start", "boot"}
           /\ pc'[p] \notin {"start", "boot"})
          => /\ pc'[p] = "idle"
             /\ ~ ctx'[p] /\ ~ enabled'[p]
             /\ <<ctx, enabled, ckptflag, counter, saved, gen>>'
                    = <<ctx, enabled, ckptflag, counter, saved, gen>>
             /\ <<conns, backlog, listener, csock0, std0, master, g_client_fds>>'
                    = <<conns, backlog, listener, csock0, std0, master, g_client_fds>>
             /\ <<phase, registered, slot, epoch>>' = <<phase, registered, slot, epoch>>]_vars

\* instance 0 of a run with more than MAX_INSTANCES instances is back from
\* init: nothing was allocated, opened or started
C22_Witness ==
    /\ num_instances > MAX_INSTANCES
    /\ pc[0] = "idle"
    /\ ~ ctx[0] /\ ~ enabled[0]
    /\ listener = -1 /\ phase = "none" /\ conns = {}

\* C23: with num_instances = 1 every submitted sync point resolves at once as
\* a match: in the select round in which the coordinator handles the
\* submission it resolves the round as a match, whatever the fingerprint,
\* and sends validation_passed = 1 for that sync point to participant 0
\* itself, without any other participant.
C23_SingleInstanceMatchesAtOnce ==
    [][num_instances = 1
       => \A g \in got' \ got :
             /\ \E r \in resolved' : r.sp = g[2] /\ r.match /\ r.sent = {0} /\ r.ids = {0}
             /\ \E c \in conns' :
                   /\ c.owner = 0 /\ c.srv = "acc" /\ c.s2c # <<>>
                   /\ c.s2c[Len(c.s2c)].type = MSG_VALIDATION_RESULT
                   /\ c.s2c[Len(c.s2c)].validation_passed = 1
                   /\ c.s2c[Len(c.s2c)].sync_point = g[2]]_vars

\* the coordinator of a single-instance run has just resolved the second
\* sync point of participant 0
C23_Witness ==
    /\ num_instances = 1
    /\ \E r \in resolved : r.sp = 2 /\ r.match /\ r.sent = {0}

\* C24: if the coordinator's connection is closed, or a send or receive
\* fails, while a participant is inside validate, validate returns to the
\* caller and the participant process does not abort: a call that finds the
\* connection closed when it sends returns at once, and a call that waits
\* on a closed connection with nothing left to read leaves the wait by
\* returning.
C24_ClosedConnectionReturns ==
    [][\A p \in Inst :
          /\ (/\ pc[p] = "waiting"
              /\ Conn(conns, p, gen[p]).srv = "closed"
              /\ Conn(conns, p, gen[p]).s2c = <<>>
              /\ pc'[p] # "waiting")
             => /\ pc'[p] = "idle"
                /\ counter'[p] = counter[p]
          /\ (/\ calls'[p] = calls[p] + 1
              /\ enabled[p] /\ ctx[p] /\ ~ ckptflag[p]
              /\ Conn(conns, p, gen[p]).srv = "closed")
             => pc'[p] = "idle"]_vars

\* instance 0 was ended by the assert of its coordinator thread after it had
\* handled sync point 1 of instance 1, and instance 1 is back in its hosted
\* computation after that one call, with its connection closed and nothing
\* received
C24_Witness ==
    /\ pc[0] = "aborted"
    /\ num_instances = 2
    /\ pc[1] = "idle" /\ enabled[1] /\ calls[1] = 1 /\ counter[1] = 1
    /\ <<1, 1, 1, 1>> \in got
    /\ Conn(conns, 1, gen[1]).srv = "closed"
    /\ Conn(conns, 1, gen[1]).s2c = <<>>

\* the SYNC_POINT messages an instance of the run can send
SyncMsgs ==
    {Msg(MSG_SYNC_POINT, id, sp, fp, 0, <<>>, sp) :
        id \in Inst, sp \in 1 .. MaxCalls, fp \in Workload(num_instances).fps}

\* C25: the coordinator keeps a single slot. The slot changes only when the
\* coordinator reads a SYNC_POINT message (not on a participant's timeout,
\* on SHUTDOWN or when a round completes) or when a coordinator is created;
\* in every value the slot takes, a SYNC_POINT with the current id leaves the
\* entries already stored as they are, and a SYNC_POINT with a different id
\* discards every earlier entry: the slot then holds exactly the new
\* submission, with instances_arrived = 1.
C25_SingleSlotSuperseded ==
    [][/\ slot' # slot
          => \/ epoch' # epoch
             \/ \E c \in conns :
                   /\ c.srv = "acc" /\ c.fd \in master /\ c.c2s # <<>>
                   /\ Head(c.c2s).type = MSG_SYNC_POINT
                   /\ \A d \in conns' :
                         (d.owner = c.owner /\ d.g = c.g) => Len(d.c2s) < Len(c.c2s)
       /\ slot' # slot
          => \A m \in SyncMsgs :
             \A after \in {SlotOnSubmission(slot', m)} :
                IF m.sync_point = slot'.current_sync_point
                THEN /\ after.current_sync_point = slot'.current_sync_point
                     /\ \A i \in Idx :
                           i < slot'.instances_arrived
                           => /\ after.fingerprints[i] = slot'.fingerprints[i]
                              /\ after.instance_ids[i] = slot'.instance_ids[i]
                ELSE /\ after.current_sync_point = m.sync_point
                     /\ after.instances_arrived = 1
                     /\ after.fingerprints[0] = m.fingerprint
                     /\ after.instance_ids[0] = m.instance_id
                     /\ \A i \in Idx \ {0} :
                           /\ after.fingerprints[i] = <<>>
                           /\ after.instance_ids[i] = -1]_vars

\* the slot holds sync point 2 with one entry after the round of sync point
\* 1 had completed: the entries of the completed round were kept until the
\* submission of 2 arrived and were discarded then
C25_Witness ==
    /\ phase = "oper"
    /\ <<epoch, 1>> \in emitted
    /\ slot.current_sync_point = 2
    /\ slot.instances_arrived = 1
    /\ num_instances = 2



\* the descriptors of instance 0 that are accepted connections
AcceptedFds(cs) == {c.fd : c \in {d \in cs : d.srv = "acc"}}

C27_ShutdownChangesNothing ==
    [][\A c \in conns :
             (/\ c.srv = "acc" /\ c.fd \in master /\ c.c2s # <<>>
              /\ Head(c.c2s).type = MSG_SHUTDOWN
              /\ ReadyFds = {c.fd} /\ ~ CanAccept
              /\ pc' = pc /\ conns' # conns /\ CoordPass)
             => /\ slot' = slot /\ g_client_fds' = g_client_fds
                /\ registered' = registered /\ master' = master
                /\ listener' = listener /\ phase' = phase
                /\ conns' = Put(conns, c, [c EXCEPT !.c2s = Tail(@)])]_vars

\* the coordinator has read the SHUTDOWN of instance 1, which cleaned up after
\* its submission for sync point 2 timed out; the round is still in progress
C27_Witness ==
    /\ num_instances = 2 /\ phase = "oper" /\ pc[1] = "cleaned"
    /\ slot.current_sync_point = 2 /\ slot.instances_arrived = 1
    /\ slot.instance_ids[0] = 1
    /\ \E c \in conns : /\ c.owner = 1 /\ c.g = gen[1] /\ c.srv = "acc"
                         /\ ~ c.cli /\ c.c2s = <<>> /\ c.fd \in master


\* C28: a connect attempt of init that finds no listener (a refused
\* connection) is retried: init does not return on it, and the instance is
\* not left with validation disabled while the coordinator starts listening
\* afterwards.
C28_RefusedConnectRetried ==
    [][\A p \in Inst :
          (pc[p] = "initB" /\ listener < 0 /\ pc'[p] # pc[p])
             => (pc'[p] # "idle" \/ enabled'[p])]_vars


\* C29: the slot never counts more arrivals than there are instances, and no
\* submission is stored past the slot's arrays.
C29_ArrivedAtMostN ==
    slot.instances_arrived <= num_instances /\ ~ slot.oob


\* C30: every instance id the coordinator has registered lies in
\* 0 .. num_instances - 1, and every entry of the registration table that
\* holds an accepted descriptor belongs to such an id.
C30_RegisteredIdsInRange ==
    /\ \A r \in regs : r[2] \in Inst
    /\ \A i \in Idx : g_client_fds[i] \in master => i \in Inst


\* C31: a validate call made while validation is enabled and the context
\* exists counts a sync point, also after a cleanup followed by a successful
\* init; and the checkpoint-in-progress flag of a process is set only while
\* the process is between a pre-checkpoint and the following resume.
C31_ValidateOperativeAfterReinit ==
    [][\A p \in Inst :
          /\ (/\ pc[p] = "idle" /\ enabled[p] /\ ctx[p]
              /\ calls'[p] = calls[p] + 1)
                => counter'[p] = counter[p] + 1
          /\ ckptflag'[p] => pc'[p] = "ckpt"]_vars


\* C32: teardown closes only endpoints the validation system opened: the
\* standard descriptors of instance 0, which the validation system never
\* opened, stay open in every reachable state.
C32_TeardownClosesOnlyOwnEndpoints ==
    std0 = {0, 1, 2}


\* C33: resume re-initialises validation only after a pre-checkpoint that
\* found validation active: a pre-checkpoint that finds no validation
\* context (after cleanup, or before any init) leaves no saved configuration
\* for the resume, and a resume without a saved configuration leaves
\* validation disabled and opens no endpoint.
C33_ResumeOnlyIfActiveAtCheckpoint ==
    [][\A p \in Inst :
          /\ (pc[p] # "ckpt" /\ pc'[p] = "ckpt" /\ ~ ctx[p]) => ~ saved'[p]
          /\ (pc[p] = "ckpt" /\ pc'[p] # "ckpt" /\ ~ saved[p])
                => /\ ~ ctx'[p] /\ ~ enabled'[p] /\ pc'[p] = "idle"
                   /\ <<listener, csock0, conns, phase, epoch>>'
                         = <<listener, csock0, conns, phase, epoch>>]_vars


\* C34: every validate call terminates: when instance 0 waits in a validate
\* call it eventually is no longer waiting in it (the call has returned or
\* the process has aborted), whatever the coordinator does and however often
\* signals interrupt the polls.
C34_ValidateTerminates ==
    (pc[0] = "waiting") ~> (pc[0] # "waiting")


\* C35: no process holds a reference to a context that init has released:
\* whenever the context of a process has been freed by a failing init, the
\* global context pointer of that process is absent.
C35_NoReferenceToReleasedContext ==
    \A p \in Inst : freed[p] => ~ ctx[p]

=============================================================================
